---- MODULE Spec2Model ----
(***************************************************************************)
(* Walk-mesh navigation (WalkMesh.cpp): construction of the directed-edge  *)
(* adjacency map, nearest_walk_point, walk_in_triangle, cross_edge and the *)
(* WalkMeshes loader.                                                      *)
(*                                                                         *)
(* Arithmetic: the source computes in IEEE floats.  The model computes in  *)
(* exact rationals <<n, d>> (d > 0, lowest terms), extended with the two   *)
(* special values the code's divisions can produce: NaN = <<0,0>> (0/0)    *)
(* and +-infinity = <<+-1,0>>.  Comparisons with NaN are false, as in      *)
(* IEEE.  Rounding error is not modelled.                                  *)
(* assert(...) is modelled as a fatal abort of the call.                   *)
(***************************************************************************)
EXTENDS Integers, Sequences, FiniteSets, TLC

\* ------------------------------------------------------------------ bounds
MaxOps == 2       \* navigation calls per run
Reach == 2        \* world points queried lie in the box -1..Reach
WeightDen == 2    \* caller-held WalkPoints have weights k/WeightDen

\* -1U: the "no index" value of unsigned min_coord / twin_triangle
NoIndex == -1

\* ------------------------------------------------------- float arithmetic
Abs(n) == IF n < 0 THEN -n ELSE n
Sgn(n) == IF n < 0 THEN -1 ELSE IF n > 0 THEN 1 ELSE 0

RECURSIVE GCD(_, _)
GCD(a, b) == IF b = 0 THEN a ELSE GCD(b, a % b)

\* the float with value n/d
Flt(n, d) ==
  IF d = 0 THEN <<Sgn(n), 0>>
  ELSE LET g == GCD(Abs(n), Abs(d))
           s == Sgn(d)
       IN <<(s * n) \div g, (s * d) \div g>>

Zero == <<0, 1>>
One == <<1, 1>>
Infinity == <<1, 0>>
IsNaN(x) == x = <<0, 0>>

FAdd(x, y) == Flt(x[1] * y[2] + y[1] * x[2], x[2] * y[2])
FNeg(x) == <<-x[1], x[2]>>
FSub(x, y) == FAdd(x, FNeg(y))
FMul(x, y) == Flt(x[1] * y[1], x[2] * y[2])
FDiv(x, y) == Flt(x[1] * y[2], x[2] * y[1])

FLt(x, y) ==
  /\ ~IsNaN(x)
  /\ ~IsNaN(y)
  /\ IF x[2] = 0 /\ y[2] = 0 THEN x[1] < y[1]
     ELSE IF x[2] = 0 THEN x[1] < 0
     ELSE IF y[2] = 0 THEN y[1] > 0
     ELSE x[1] * y[2] < y[1] * x[2]
FGt(x, y) == FLt(y, x)
FGe(x, y) == ~IsNaN(x) /\ ~IsNaN(y) /\ (x = y \/ FLt(y, x))

\* glm::vec3
Vec(x, y, z) == <<Flt(x, 1), Flt(y, 1), Flt(z, 1)>>
VAdd(a, b) == <<FAdd(a[1], b[1]), FAdd(a[2], b[2]), FAdd(a[3], b[3])>>
VSub(a, b) == <<FSub(a[1], b[1]), FSub(a[2], b[2]), FSub(a[3], b[3])>>
VScale(t, a) == <<FMul(t, a[1]), FMul(t, a[2]), FMul(t, a[3])>>
Dot(a, b) == FAdd(FAdd(FMul(a[1], b[1]), FMul(a[2], b[2])), FMul(a[3], b[3]))
Cross(a, b) ==
  <<FSub(FMul(a[2], b[3]), FMul(a[3], b[2])),
    FSub(FMul(a[3], b[1]), FMul(a[1], b[3])),
    FSub(FMul(a[1], b[2]), FMul(a[2], b[1]))>>
Length2(a) == Dot(a, a)
Mix(a, b, amt) == VAdd(VScale(FSub(One, amt), a), VScale(amt, b))

\* ------------------------------------------------------ WalkMesh::WalkMesh
\* the three directed edges of a triangle, in insertion order
TriEdges(tri) ==
  << <<tri[1], tri[2], tri[3]>>, <<tri[2], tri[3], tri[1]>>, <<tri[3], tri[1], tri[2]>> >>

RECURSIVE AllEdges(_, _)
AllEdges(triangles, i) ==
  IF i > Len(triangles) THEN <<>>
  ELSE TriEdges(triangles[i]) \o AllEdges(triangles, i + 1)

EmptyMap == [k \in {} |-> 0]

\* faulty variant: operator[] instead of insert, and no assertion
RECURSIVE do_next_Overwrite(_, _, _)
do_next_Overwrite(edges, i, map) ==
  IF i > Len(edges) THEN [next_vertex |-> map, ok |-> TRUE]
  ELSE LET key == <<edges[i][1], edges[i][2]>>
       IN do_next_Overwrite(edges, i + 1,
            [k \in DOMAIN map \cup {key} |-> IF k = key THEN edges[i][3] ELSE map[k]])

\* unordered_map::insert keeps an existing entry; assert(ret.second) aborts
RECURSIVE do_next(_, _, _)
do_next(edges, i, map) ==
  IF i > Len(edges) THEN [next_vertex |-> map, ok |-> TRUE]
  ELSE LET key == <<edges[i][1], edges[i][2]>>
       IN IF key \in DOMAIN map
          THEN [next_vertex |-> map, ok |-> FALSE]
          ELSE do_next(edges, i + 1, map @@ (key :> edges[i][3]))

\* the sign of dot(normalize(cross(b-a, c-a)), n): normalize scales by a
\* positive factor, and turns the zero vector into NaN (never > 0)
FacesOut(out, na, nb, nc) ==
  /\ FGt(Dot(out, na), Zero)
  /\ FGt(Dot(out, nb), Zero)
  /\ FGt(Dot(out, nc), Zero)

NormalsConsistent(vertices, normals, triangles) ==
  \A i \in 1..Len(triangles) :
    FacesOut(Cross(VSub(vertices[triangles[i][2]], vertices[triangles[i][1]]),
                   VSub(vertices[triangles[i][3]], vertices[triangles[i][1]])),
             normals[triangles[i][1]], normals[triangles[i][2]], normals[triangles[i][3]])

WalkMesh(vertices, normals, triangles) ==
  LET ins == do_next(AllEdges(triangles, 1), 1, EmptyMap)
  IN [vertices |-> vertices, normals |-> normals, triangles |-> triangles,
      next_vertex |-> ins.next_vertex,
      ok |-> ins.ok /\ NormalsConsistent(vertices, normals, triangles)]

\* a buffer indexed from 0, as std::vector
Buf(seq) == [i \in 0..(Len(seq) - 1) |-> seq[i + 1]]
Size(buf) == Cardinality(DOMAIN buf)

\* --------------------------------------------------------------- the meshes
\* one triangle; every edge is a boundary
SingleTriangle ==
  WalkMesh(Buf(<<Vec(0,0,0), Vec(2,0,0), Vec(0,2,0)>>),
           Buf(<<Vec(0,0,1), Vec(0,0,1), Vec(0,0,1)>>),
           <<<<0,1,2>>>>)

\* a flat square of two triangles
Square ==
  WalkMesh(Buf(<<Vec(0,0,0), Vec(2,0,0), Vec(2,2,0), Vec(0,2,0)>>),
           Buf(<<Vec(0,0,1), Vec(0,0,1), Vec(0,0,1), Vec(0,0,1)>>),
           <<<<0,1,2>>, <<0,2,3>>>>)

\* a closed tetrahedron: no boundary edge
Tetrahedron ==
  WalkMesh(Buf(<<Vec(0,0,0), Vec(2,0,0), Vec(0,2,0), Vec(0,0,2)>>),
           Buf(<<Vec(-1,-1,-1), Vec(3,-1,-1), Vec(-1,3,-1), Vec(-1,-1,3)>>),
           <<<<0,2,1>>, <<0,1,3>>, <<0,3,2>>, <<1,2,3>>>>)

\* vertex 3 lies in the middle of edge 0-1 of the first triangle
TJunction ==
  WalkMesh(Buf(<<Vec(0,0,0), Vec(2,0,0), Vec(0,2,0), Vec(1,0,0), Vec(1,-1,0)>>),
           Buf(<<Vec(0,0,1), Vec(0,0,1), Vec(0,0,1), Vec(0,0,1), Vec(0,0,1)>>),
           <<<<0,1,2>>, <<0,4,3>>>>)

Meshes == <<SingleTriangle, Square, Tetrahedron, TJunction>>

\* ---------------------------------------------------------------- WalkPoint
WalkPoint(indices, weights) == [indices |-> indices, weights |-> weights]

to_world_point(m, wp) ==
  VAdd(VAdd(VScale(wp.weights[1], m.vertices[wp.indices[1]]),
            VScale(wp.weights[2], m.vertices[wp.indices[2]])),
       VScale(wp.weights[3], m.vertices[wp.indices[3]]))

\* --------------------------------------------------------- barycentric_weights
\* u, and the result
BaryUVW(v, w) == <<FSub(FSub(One, v), w), v, w>>

\* v and w by Cramer's rule
BarySolve(d00, d01, d11, d20, d21, denom) ==
  BaryUVW(FDiv(FSub(FMul(d11, d20), FMul(d01, d21)), denom),
          FDiv(FSub(FMul(d00, d21), FMul(d01, d20)), denom))

BaryFromDots(d00, d01, d11, d20, d21) ==
  BarySolve(d00, d01, d11, d20, d21, FSub(FMul(d00, d11), FMul(d01, d01)))

BaryFromEdges(v0, v1, v2) ==
  BaryFromDots(Dot(v0, v0), Dot(v0, v1), Dot(v1, v1), Dot(v2, v0), Dot(v2, v1))

barycentric_weights(a, b, c, pt) ==
  BaryFromEdges(VSub(b, a), VSub(c, a), VSub(pt, a))

\* ---------------------------------------------------------- nearest_walk_point
\* closest / closest_dis2 before the loop
NoClosest == [dis2 |-> Infinity, wp |-> WalkPoint(<<NoIndex, NoIndex, NoIndex>>, <<Zero, Zero, Zero>>)]

\* if (dis2 < closest_dis2) { closest_dis2 = dis2; closest = ... }
KeepCloser(dis2, wp, closest) ==
  IF FLt(dis2, closest.dis2) THEN [dis2 |-> dis2, wp |-> wp] ELSE closest

\* the closest point of segment a-b, from along and max
ClosestOnSegment(a, b, along, max, world_point, closest, indices) ==
  IF FLt(along, Zero)
  THEN KeepCloser(Length2(VSub(world_point, a)),
                  WalkPoint(indices, <<One, Zero, Zero>>), closest)
  ELSE IF FGt(along, max)
  THEN KeepCloser(Length2(VSub(world_point, b)),
                  WalkPoint(indices, <<Zero, One, Zero>>), closest)
  ELSE KeepCloser(Length2(VSub(world_point, Mix(a, b, FDiv(along, max)))),
                  WalkPoint(indices, <<FSub(One, FDiv(along, max)), FDiv(along, max), Zero>>),
                  closest)

check_edge(m, world_point, closest, ai, bi, ci) ==
  ClosestOnSegment(m.vertices[ai], m.vertices[bi],
                   Dot(VSub(world_point, m.vertices[ai]), VSub(m.vertices[bi], m.vertices[ai])),
                   Dot(VSub(m.vertices[bi], m.vertices[ai]), VSub(m.vertices[bi], m.vertices[ai])),
                   world_point, closest, <<ai, bi, ci>>)

\* faulty variant: the in-triangle branch records the triangle but not the weights
InsideOrEdges_StaleWeights(m, world_point, closest, tri, coords) ==
  IF FGe(coords[1], Zero) /\ FGe(coords[2], Zero) /\ FGe(coords[3], Zero)
  THEN KeepCloser(Length2(VSub(world_point, to_world_point(m, WalkPoint(tri, coords)))),
                  WalkPoint(tri, closest.wp.weights), closest)
  ELSE check_edge(m, world_point,
         check_edge(m, world_point,
           check_edge(m, world_point, closest, tri[1], tri[2], tri[3]),
           tri[2], tri[3], tri[1]),
         tri[3], tri[1], tri[2])

\* the loop body, from the barycentric coords of world_point in tri's plane
InsideOrEdges(m, world_point, closest, tri, coords) ==
  IF FGe(coords[1], Zero) /\ FGe(coords[2], Zero) /\ FGe(coords[3], Zero)
  THEN KeepCloser(Length2(VSub(world_point, to_world_point(m, WalkPoint(tri, coords)))),
                  WalkPoint(tri, coords), closest)
  ELSE check_edge(m, world_point,
         check_edge(m, world_point,
           check_edge(m, world_point, closest, tri[1], tri[2], tri[3]),
           tri[2], tri[3], tri[1]),
         tri[3], tri[1], tri[2])

\* one iteration of the loop over the triangles
NearestInTriangle(m, world_point, closest, tri) ==
  InsideOrEdges(m, world_point, closest, tri,
                barycentric_weights(m.vertices[tri[1]], m.vertices[tri[2]],
                                    m.vertices[tri[3]], world_point))

RECURSIVE NearestLoop(_, _, _, _)
NearestLoop(m, world_point, closest, i) ==
  IF i > Len(m.triangles) THEN closest
  ELSE NearestLoop(m, world_point,
                   NearestInTriangle(m, world_point, closest, m.triangles[i]), i + 1)

\* ok is FALSE when one of the function's assertions fires
NearestResult(m, closest) ==
  [wp |-> closest.wp, dis2 |-> closest.dis2,
   ok |-> /\ Len(m.triangles) > 0
          /\ \A k \in 1..3 : closest.wp.indices[k] \in DOMAIN m.vertices]

nearest_walk_point(m, world_point) ==
  NearestResult(m, NearestLoop(m, world_point, NoClosest, 1))

\* ------------------------------------------------------------ walk_in_triangle
\* faulty variant: the early return for dest_w > 0 is missing
cross_on_edge_NoReturn(acc, coord, dest_w, start_w) ==
  LET time == FDiv(FNeg(start_w), FSub(dest_w, start_w))
  IN IF FLt(time, acc.min_time)
     THEN [min_time |-> time, min_coord |-> coord]
     ELSE acc

cross_on_edge(acc, coord, dest_w, start_w) ==
  IF FGt(dest_w, Zero) THEN acc
  ELSE LET time == FDiv(FNeg(start_w), FSub(dest_w, start_w))
       IN IF FLt(time, acc.min_time)
          THEN [min_time |-> time, min_coord |-> coord]
          ELSE acc

\* faulty variant: the step is never clipped
MinTime_NoClip(min_time) == One

\* std::min(1.0f, min_time)
MinTime(min_time) == IF FLt(min_time, One) THEN min_time ELSE One

\* assert(time > 0.0f)
TimeAssert(time) == FGt(time, Zero)

\* the switch on min_coord
KeepConvention(start, weights, min_coord) ==
  CASE min_coord = 0 ->
         WalkPoint(<<start.indices[2], start.indices[3], start.indices[1]>>,
                   <<weights[2], weights[3], Zero>>)
    [] min_coord = 1 ->
         WalkPoint(<<start.indices[3], start.indices[1], start.indices[2]>>,
                   <<weights[3], weights[1], Zero>>)
    [] min_coord = 2 ->
         WalkPoint(start.indices, <<weights[1], weights[2], Zero>>)
    [] OTHER -> WalkPoint(start.indices, weights)

\* from time on: the assertion, the weights and the switch
WalkForTime(start, dest_bary, min_coord, time) ==
  [time |-> time, ok |-> TimeAssert(time), min_coord |-> min_coord,
   end |-> KeepConvention(start,
             VAdd(start.weights, VScale(time, VSub(dest_bary, start.weights))),
             min_coord)]

WalkToCrossing(start, dest_bary, first) ==
  WalkForTime(start, dest_bary, first.min_coord, MinTime(first.min_time))

\* the three cross_on_edge calls
WalkToDest(start, dest_bary) ==
  WalkToCrossing(start, dest_bary,
    cross_on_edge(
      cross_on_edge(
        cross_on_edge([min_time |-> Infinity, min_coord |-> NoIndex],
                      0, dest_bary[1], start.weights[1]),
        1, dest_bary[2], start.weights[2]),
      2, dest_bary[3], start.weights[3]))

walk_in_triangle(m, start, step) ==
  WalkToDest(start,
    barycentric_weights(m.vertices[start.indices[1]], m.vertices[start.indices[2]],
                        m.vertices[start.indices[3]],
                        VAdd(to_world_point(m, start), step)))

\* ------------------------------------------------------------------ cross_edge
IdentityRotation == <<1, 0, 0, 0>>

\* glm::rotation(normalize(old), normalize(new)): the identity quaternion for
\* equal unit vectors, else the shortest arc between the two directions
Rotation(old_norm, new_norm) ==
  IF Cross(old_norm, new_norm) = <<Zero, Zero, Zero>> /\ FGt(Dot(old_norm, new_norm), Zero)
  THEN IdentityRotation
  ELSE [from |-> old_norm, to |-> new_norm]

\* faulty variant: looks up the edge itself, not its reverse
TwinTriangle_SameEdge(m, start) ==
  LET key == <<start.indices[1], start.indices[2]>>
  IN IF key \in DOMAIN m.next_vertex
     THEN <<start.indices[2], start.indices[1], m.next_vertex[key]>>
     ELSE <<NoIndex, NoIndex, NoIndex>>

\* faulty variant: the twin keeps the direction of the start's edge
TwinTriangle_Unflipped(m, start) ==
  LET key == <<start.indices[2], start.indices[1]>>
  IN IF key \in DOMAIN m.next_vertex
     THEN <<start.indices[1], start.indices[2], m.next_vertex[key]>>
     ELSE <<NoIndex, NoIndex, NoIndex>>

TwinTriangle(m, start) ==
  LET key == <<start.indices[2], start.indices[1]>>
  IN IF key \in DOMAIN m.next_vertex
     THEN <<start.indices[2], start.indices[1], m.next_vertex[key]>>
     ELSE <<NoIndex, NoIndex, NoIndex>>

cross_edge(m, start) ==
  LET twin_triangle == TwinTriangle(m, start)
  IN IF twin_triangle[1] # NoIndex
     THEN LET a == m.vertices[twin_triangle[1]]
              b == m.vertices[twin_triangle[2]]
              c == m.vertices[twin_triangle[3]]
              new_norm == Cross(VSub(b, a), VSub(c, a))
              a0 == m.vertices[start.indices[1]]
              b0 == m.vertices[start.indices[2]]
              c0 == m.vertices[start.indices[3]]
              old_norm == Cross(VSub(b0, a0), VSub(c0, a0))
          IN [end |-> WalkPoint(twin_triangle,
                                barycentric_weights(a, b, c, to_world_point(m, start))),
              rotation |-> Rotation(old_norm, new_norm),
              crossed |-> TRUE]
     ELSE [end |-> start, rotation |-> IdentityRotation, crossed |-> FALSE]

\* ------------------------------------------------------------ the state machine
VARIABLES
  mesh,      \* the WalkMesh the agent walks on (an index into Meshes)
  op,        \* the last call: "new", "given", "nearest", "walk", "cross"
  arg,       \* its argument: a world point, a step, or None
  start,     \* the WalkPoint passed to the last call
  end,       \* the WalkPoint the agent is at (*end_ of the last call)
  time,      \* *time_ of the last walk_in_triangle
  crossed,   \* the last cross_edge's return value
  rotation,  \* *rotation_ of the last cross_edge
  fatal,     \* an assertion has fired
  calls,     \* navigation calls made since the placement
  last,      \* op, start and crossed of the call before the last one
  file,      \* the chunks read from the resource given to WalkMeshes::WalkMeshes
  entry,     \* the loader's position in the index (0-based)
  meshes,    \* WalkMeshes::meshes, name -> WalkMesh
  wm,        \* the WalkMesh the loader constructed last (or died constructing)
  built,     \* how many WalkMesh constructions have completed
  status     \* "idle", "read", "loop", "loaded", or the fatal error

navvars == <<mesh, op, arg, start, end, time, crossed, rotation, fatal, calls, last>>
loadvars == <<file, entry, meshes, wm, built, status>>
vars == <<mesh, op, arg, start, end, time, crossed, rotation, fatal, calls, last,
          file, entry, meshes, wm, built, status>>

None == <<>>

\* the arguments the caller passes
WorldPoints == {Vec(x, y, z) : x \in -1..Reach, y \in -1..Reach, z \in -1..Reach}
Steps ==
  {Vec(0,0,0), Vec(1,0,0), Vec(-1,0,0), Vec(0,1,0), Vec(0,-1,0),
   Vec(0,0,1), Vec(0,0,-1), Vec(1,1,0), Vec(-1,-1,0), Vec(1,-1,0), Vec(2,2,0)}

CyclicPermutations(tri) ==
  {<<tri[1], tri[2], tri[3]>>, <<tri[2], tri[3], tri[1]>>, <<tri[3], tri[1], tri[2]>>}

\* the valid WalkPoints of mesh m with weights that are multiples of 1/WeightDen
ValidWalkPoints(m) ==
  {WalkPoint(ind, <<Flt(ij[1], WeightDen), Flt(ij[2], WeightDen),
                    Flt(WeightDen - ij[1] - ij[2], WeightDen)>>) :
     ind \in UNION {CyclicPermutations(m.triangles[t]) : t \in 1..Len(m.triangles)},
     ij \in {p \in (0..WeightDen) \X (0..WeightDen) : p[1] + p[2] <= WeightDen}}

Idle ==
  /\ arg = None
  /\ start = None
  /\ time = None
  /\ crossed = None
  /\ rotation = None
  /\ fatal = FALSE
  /\ calls = 0
  /\ last = None

\* no load in progress: the meshes are the constructed ones of Meshes
NoLoad ==
  /\ file = None
  /\ entry = 0
  /\ meshes = None
  /\ wm = None
  /\ built = 0
  /\ status = "idle"

\* a constructed mesh, the agent not yet placed
Init ==
  /\ mesh \in {i \in 1..Len(Meshes) : Meshes[i].ok}
  /\ op = "new"
  /\ end = None
  /\ Idle
  /\ NoLoad

\* a constructed mesh and a valid WalkPoint held by the caller
InitWalk ==
  /\ mesh \in {i \in 1..Len(Meshes) : Meshes[i].ok}
  /\ op = "given"
  /\ end \in ValidWalkPoints(Meshes[mesh])
  /\ Idle
  /\ NoLoad

Remember == last' = [op |-> op, start |-> start, crossed |-> crossed]

NearestWalkPoint(world_point) ==
  /\ op = "new"
  /\ ~fatal
  /\ LET r == nearest_walk_point(Meshes[mesh], world_point)
     IN /\ end' = IF r.ok THEN r.wp ELSE end
        /\ fatal' = ~r.ok
  /\ op' = "nearest"
  /\ arg' = world_point
  /\ UNCHANGED <<mesh, start, time, crossed, rotation, calls, last>>
  /\ UNCHANGED loadvars

WalkInTriangle(step) ==
  /\ op \notin {"new"}
  /\ ~fatal
  /\ calls < MaxOps
  /\ LET r == walk_in_triangle(Meshes[mesh], end, step)
     IN /\ time' = r.time
        /\ end' = IF r.ok THEN r.end ELSE end
        /\ fatal' = ~r.ok
  /\ op' = "walk"
  /\ arg' = step
  /\ start' = end
  /\ calls' = calls + 1
  /\ Remember
  /\ UNCHANGED <<mesh, crossed, rotation>>
  /\ UNCHANGED loadvars

CrossEdge ==
  /\ op \notin {"new"}
  /\ ~fatal
  /\ calls < MaxOps
  /\ IF end.weights[3] = Zero
     THEN LET r == cross_edge(Meshes[mesh], end)
          IN /\ end' = r.end
             /\ rotation' = r.rotation
             /\ crossed' = r.crossed
             /\ fatal' = FALSE
     ELSE /\ fatal' = TRUE
          /\ UNCHANGED <<end, rotation, crossed>>
  /\ op' = "cross"
  /\ arg' = None
  /\ start' = end
  /\ calls' = calls + 1
  /\ Remember
  /\ UNCHANGED <<mesh, time>>
  /\ UNCHANGED loadvars

Next ==
  \/ \E world_point \in WorldPoints : NearestWalkPoint(world_point)
  \/ \E step \in Steps : WalkInTriangle(step)
  \/ CrossEdge

Spec == Init /\ [][Next]_vars

NextWalk ==
  \/ \E step \in Steps : WalkInTriangle(step)
  \/ CrossEdge

SpecWalk == InitWalk /\ [][NextWalk]_vars

\* ---------------------------------------------------- WalkMeshes::WalkMeshes
MaxEntries == 2   \* index entries per resource

\* the "p...", "n...", "tri0" and "str0" chunks
FileVertices ==
  <<Vec(0,0,0), Vec(2,0,0), Vec(2,2,0), Vec(0,2,0), Vec(0,0,0), Vec(2,0,0), Vec(0,2,0)>>
FileNormals ==
  <<Vec(0,0,1), Vec(0,0,1), Vec(0,0,1), Vec(0,0,1), Vec(0,0,1), Vec(0,0,1), Vec(0,0,1)>>
FileTriangles == <<<<0,1,2>>, <<0,2,3>>, <<0,1,3>>, <<4,5,6>>, <<4,6,5>>>>
FileNames == <<"a", "b">>

IndexEntry(nb, ne, vb, ve, tb, te) ==
  [name_begin |-> nb, name_end |-> ne, vertex_begin |-> vb, vertex_end |-> ve,
   triangle_begin |-> tb, triangle_end |-> te]

\* the "idxA" records the resources are made of
Entries ==
  {IndexEntry(0,1, 0,4, 0,2),   \* "a": the square
   IndexEntry(1,2, 4,7, 3,4),   \* "b": the triangle, remapped by 4
   IndexEntry(0,2, 0,7, 0,2),   \* "ab": the square over the whole vertex buffer
   IndexEntry(0,0, 0,0, 0,0),   \* "": an empty mesh
   IndexEntry(0,1, 4,7, 3,4),   \* "a" again
   IndexEntry(1,2, 4,8, 3,4),   \* vertex_end beyond the vertex buffer
   IndexEntry(1,2, 5,4, 3,4),   \* vertex_begin beyond vertex_end
   IndexEntry(1,3, 4,7, 3,4),   \* name_end beyond the names
   IndexEntry(1,2, 4,7, 3,6),   \* triangle_end beyond the triangles
   IndexEntry(1,2, 0,4, 1,4),   \* a triangle of another sub-mesh's vertices
   IndexEntry(1,2, 1,4, 0,2),   \* triangles that use a vertex below vertex_begin
   IndexEntry(1,2, 0,4, 0,3),   \* directed edge 0->1 owned twice
   IndexEntry(1,2, 0,4, 1,3),   \* directed edge 3->0 owned twice
   IndexEntry(1,2, 4,7, 3,5)}   \* a triangle wound against its normals

RECURSIVE SeqsUpTo(_, _)
SeqsUpTo(S, n) ==
  IF n = 0 THEN {<<>>}
  ELSE LET shorter == SeqsUpTo(S, n - 1)
       IN shorter \cup {Append(q, x) : q \in shorter, x \in S}

Files ==
  {[vertices |-> FileVertices, normals |-> ns, triangles |-> FileTriangles,
    names |-> FileNames, index |-> ix] :
     ns \in {FileNormals, SubSeq(FileNormals, 1, Len(FileNormals) - 1)},
     ix \in SeqsUpTo(Entries, MaxEntries)}

\* begin <= end && end <= size
RangeOk(begin, end_, size) == begin <= end_ /\ end_ <= size

TriangleInRange(e, tri) ==
  /\ e.vertex_begin <= tri[1] /\ tri[1] < e.vertex_end
  /\ e.vertex_begin <= tri[2] /\ tri[2] < e.vertex_end
  /\ e.vertex_begin <= tri[3] /\ tri[3] < e.vertex_end

Remap(e, tri) ==
  <<tri[1] - e.vertex_begin, tri[2] - e.vertex_begin, tri[3] - e.vertex_begin>>

\* triangles[ti] for the 0-based ti of the source
TriangleAt(f, ti) == f.triangles[ti + 1]

NameOf(f, e) == SubSeq(f.names, e.name_begin + 1, e.name_end)

\* faulty variant: an invalid entry is skipped (continue) instead of thrown on
LoadEntry_Continue(f, e) ==
  IF \/ ~RangeOk(e.name_begin, e.name_end, Len(f.names))
     \/ ~RangeOk(e.vertex_begin, e.vertex_end, Len(f.vertices))
     \/ ~RangeOk(e.triangle_begin, e.triangle_end, Len(f.triangles))
  THEN [error |-> "", made |-> FALSE, wm |-> None]
  ELSE IF \E ti \in e.triangle_begin..(e.triangle_end - 1) :
            ~TriangleInRange(e, TriangleAt(f, ti))
  THEN [error |-> "", made |-> FALSE, wm |-> None]
  ELSE LET wm_vertices == Buf(SubSeq(f.vertices, e.vertex_begin + 1, e.vertex_end))
           wm_normals == Buf(SubSeq(f.normals, e.vertex_begin + 1, e.vertex_end))
           wm_triangles == [k \in 1..(e.triangle_end - e.triangle_begin) |->
                              Remap(e, TriangleAt(f, e.triangle_begin + k - 1))]
           new == WalkMesh(wm_vertices, wm_normals, wm_triangles)
       IN IF ~new.ok THEN [error |-> "assert", made |-> TRUE, wm |-> new]
          ELSE IF NameOf(f, e) \in DOMAIN meshes
          THEN [error |-> "WalkMesh with duplicated name", made |-> TRUE, wm |-> new]
          ELSE [error |-> "", made |-> TRUE, wm |-> new]

\* one iteration of the loop over the index: the error thrown, or the WalkMesh
LoadEntry(f, e) ==
  IF ~RangeOk(e.name_begin, e.name_end, Len(f.names))
  THEN [error |-> "Invalid name indices", made |-> FALSE, wm |-> None]
  ELSE IF ~RangeOk(e.vertex_begin, e.vertex_end, Len(f.vertices))
  THEN [error |-> "Invalid vertex indices", made |-> FALSE, wm |-> None]
  ELSE IF ~RangeOk(e.triangle_begin, e.triangle_end, Len(f.triangles))
  THEN [error |-> "Invalid triangle indices", made |-> FALSE, wm |-> None]
  ELSE IF \E ti \in e.triangle_begin..(e.triangle_end - 1) :
            ~TriangleInRange(e, TriangleAt(f, ti))
  THEN [error |-> "Invalid triangle", made |-> FALSE, wm |-> None]
  ELSE LET wm_vertices == Buf(SubSeq(f.vertices, e.vertex_begin + 1, e.vertex_end))
           wm_normals == Buf(SubSeq(f.normals, e.vertex_begin + 1, e.vertex_end))
           wm_triangles == [k \in 1..(e.triangle_end - e.triangle_begin) |->
                              Remap(e, TriangleAt(f, e.triangle_begin + k - 1))]
           new == WalkMesh(wm_vertices, wm_normals, wm_triangles)
       IN IF ~new.ok THEN [error |-> "assert", made |-> TRUE, wm |-> new]
          ELSE IF NameOf(f, e) \in DOMAIN meshes
          THEN [error |-> "WalkMesh with duplicated name", made |-> TRUE, wm |-> new]
          ELSE [error |-> "", made |-> TRUE, wm |-> new]

InitLoad ==
  /\ file \in Files
  /\ entry = 0
  /\ meshes = EmptyMap
  /\ wm = None
  /\ built = 0
  /\ status = "read"
  /\ mesh = 0
  /\ op = "new"
  /\ end = None
  /\ Idle

\* the chunks are read; vertices.size() != normals.size() throws
CheckSizes ==
  /\ status = "read"
  /\ status' = IF Len(file.vertices) # Len(file.normals)
               THEN "Mis-matched position and normal sizes"
               ELSE "loop"
  /\ UNCHANGED <<file, entry, meshes, wm, built>>
  /\ UNCHANGED navvars

\* the loop body for index[entry]
LoadNext ==
  /\ status = "loop"
  /\ entry < Len(file.index)
  /\ LET e == file.index[entry + 1]
         r == LoadEntry(file, e)
     IN /\ wm' = IF r.made THEN r.wm ELSE wm
        /\ built' = IF r.made /\ r.wm.ok THEN built + 1 ELSE built
        /\ meshes' = IF r.made /\ r.error = ""
                      THEN meshes @@ (NameOf(file, e) :> r.wm) ELSE meshes
        /\ status' = IF r.error = "" THEN "loop" ELSE r.error
        /\ entry' = IF r.error = "" THEN entry + 1 ELSE entry
  /\ UNCHANGED file
  /\ UNCHANGED navvars

\* the loop ends: the collection is complete
Loaded ==
  /\ status = "loop"
  /\ entry = Len(file.index)
  /\ status' = "loaded"
  /\ UNCHANGED <<file, entry, meshes, wm, built>>
  /\ UNCHANGED navvars

NextLoad == CheckSizes \/ LoadNext \/ Loaded

SpecLoad == InitLoad /\ [][NextLoad]_vars

\* ======================================================================
\* Properties
\* ======================================================================
TheMesh == Meshes[mesh]

NonNegative(w) == FGe(w[1], Zero) /\ FGe(w[2], Zero) /\ FGe(w[3], Zero)
SumsToOne(w) == FAdd(FAdd(w[1], w[2]), w[3]) = One
OnTriangleOf(m, indices) ==
  \E t \in 1..Len(m.triangles) : indices \in CyclicPermutations(m.triangles[t])
Valid(m, wp) == NonNegative(wp.weights) /\ SumsToOne(wp.weights) /\ OnTriangleOf(m, wp.indices)

\* the destination weights of a step from wp, in wp's triangle
DestWeights(m, wp, step_) ==
  barycentric_weights(m.vertices[wp.indices[1]], m.vertices[wp.indices[2]],
                      m.vertices[wp.indices[3]], VAdd(to_world_point(m, wp), step_))

\* weight k decreases from a non-negative value to a non-positive one
CrossesEdge(m, wp, step_, k) ==
  LET d == DestWeights(m, wp, step_)[k]
  IN FGe(wp.weights[k], Zero) /\ FGe(Zero, d) /\ FLt(d, wp.weights[k])

CrossedEdges(m, wp, step_) == {k \in 1..3 : CrossesEdge(m, wp, step_, k)}

\* indices relabelled so that the vertex in slot k comes third
EdgeFirst(indices, k) ==
  <<indices[(k % 3) + 1], indices[((k + 1) % 3) + 1], indices[k]>>

\* C1: a step from a valid start that crosses exactly one edge of the start's
\* triangle returns a fraction in (0,1] and an end point whose third weight
\* is 0 and whose indices are the cyclic permutation of the start's that puts
\* the crossed edge first.
C1_CrossOneEdge ==
  (op = "walk" /\ Valid(TheMesh, start) /\ Cardinality(CrossedEdges(TheMesh, start, arg)) = 1)
    => /\ ~fatal
       /\ FGt(time, Zero) /\ FGe(One, time)
       /\ end.weights[3] = Zero
       /\ \A k \in CrossedEdges(TheMesh, start, arg) : end.indices = EdgeFirst(start.indices, k)

\* C8: from a start with all three weights >= 0, every step computes a
\* strictly positive crossing time (the assertion time > 0 does not fire).
C8_TimePositive ==
  (op = "walk" /\ NonNegative(start.weights)) => (FGt(time, Zero) /\ ~fatal)

IsBoundaryEdge(m, a, b) == <<b, a>> \notin DOMAIN m.next_vertex

\* C2: cross_edge on a point of a boundary edge (the reverse directed edge
\* has no entry in the adjacency map) returns false, leaves the point as it
\* was and returns the identity rotation.
C2_BoundaryEdge ==
  (/\ op = "cross"
   /\ start.weights[3] = Zero
   /\ IsBoundaryEdge(TheMesh, start.indices[1], start.indices[2]))
    => (~fatal /\ crossed = FALSE /\ end = start /\ rotation = IdentityRotation)

C2_Witness ==
  /\ op = "cross" /\ ~fatal
  /\ start.weights[3] = Zero
  /\ IsBoundaryEdge(TheMesh, start.indices[1], start.indices[2])
  /\ crossed = FALSE /\ end = start

Closed(m) ==
  \A t \in 1..Len(m.triangles) : \A tri \in CyclicPermutations(m.triangles[t]) :
    ~IsBoundaryEdge(m, tri[1], tri[2])

TriangleVertices(m) ==
  {m.vertices[m.triangles[t][k]] : t \in 1..Len(m.triangles), k \in 1..3}

UnitWeights(w) == w \in {<<One, Zero, Zero>>, <<Zero, One, Zero>>, <<Zero, Zero, One>>}

\* v lies in or on a triangle of m that has no corner at v
OnForeignTriangle(m, v) ==
  \E t \in 1..Len(m.triangles) :
    LET tri == m.triangles[t]
        coords == barycentric_weights(m.vertices[tri[1]], m.vertices[tri[2]],
                                      m.vertices[tri[3]], v)
    IN /\ NonNegative(coords)
       /\ to_world_point(m, WalkPoint(tri, coords)) = v
       /\ v \notin {m.vertices[tri[k]] : k \in 1..3}

\* C6 as claimed: nearest_walk_point at the position of a vertex of a
\* triangle returns one weight 1 and two weights 0, at that position, on a
\* triangle of the mesh.
C6_VertexWeights ==
  (op = "nearest" /\ arg \in TriangleVertices(TheMesh))
    => /\ ~fatal
       /\ UnitWeights(end.weights)
       /\ to_world_point(TheMesh, end) = arg
       /\ OnTriangleOf(TheMesh, end.indices)

\* C6 amended: nearest_walk_point at the position of a vertex of a triangle
\* returns a WalkPoint at that position (distance 0) on a triangle of the
\* mesh; it has one weight 1 and two weights 0 unless the vertex lies in or
\* on a triangle that has no corner there.
C6_VertexPosition ==
  (op = "nearest" /\ arg \in TriangleVertices(TheMesh))
    => /\ ~fatal
       /\ to_world_point(TheMesh, end) = arg
       /\ OnTriangleOf(TheMesh, end.indices)
       /\ (~OnForeignTriangle(TheMesh, arg) => UnitWeights(end.weights))

C6_Witness ==
  /\ op = "nearest" /\ ~fatal
  /\ arg \in TriangleVertices(TheMesh)
  /\ ~OnForeignTriangle(TheMesh, arg)
  /\ end.weights = <<Zero, One, Zero>>
  /\ to_world_point(TheMesh, end) = arg

\* ---------------------------------------------------------------- the loader
\* the 1-based positions of the index entries whose vertex_end exceeds the
\* vertex buffer
BadVertexEnd(f) ==
  {i \in 1..Len(f.index) : f.index[i].vertex_end > Len(f.vertices)}

FirstOf(S) == CHOOSE i \in S : \A j \in S : i <= j

\* C3 as claimed: a resource with an index entry whose vertex_end exceeds the
\* vertex buffer fails to load before any WalkMesh is constructed, wherever
\* the entry is in the index.
C3_NoneConstructed ==
  (status # "idle" /\ BadVertexEnd(file) # {})
    => (status # "loaded" /\ built = 0)

\* C3 amended: such a resource fails to load, and no WalkMesh is constructed
\* for the first offending entry or for any entry after it; when the load
\* gets as far as that entry, one WalkMesh has been constructed for each
\* entry before it.
C3_NoneFromOffendingEntry ==
  (status # "idle" /\ BadVertexEnd(file) # {})
    => /\ status # "loaded"
       /\ entry < FirstOf(BadVertexEnd(file))
       /\ built < FirstOf(BadVertexEnd(file))
       /\ (status = "Invalid vertex indices" /\ entry = FirstOf(BadVertexEnd(file)) - 1)
            => built = entry

C3_Witness ==
  /\ status = "Invalid vertex indices"
  /\ BadVertexEnd(file) = {2}
  /\ built = 1

\* the index entries with a triangle in their triangle range that uses a
\* vertex outside their vertex range
ForeignTriangle(f) ==
  {i \in 1..Len(f.index) :
     \E ti \in f.index[i].triangle_begin..(f.index[i].triangle_end - 1) :
       /\ ti < Len(f.triangles)
       /\ \E k \in 1..3 : \/ f.triangles[ti + 1][k] < f.index[i].vertex_begin
                          \/ f.triangles[ti + 1][k] >= f.index[i].vertex_end}

\* the entry that mesh `name` of the collection was loaded from
EntryOf(name) ==
  CHOOSE i \in 1..entry : NameOf(file, file.index[i]) = name

\* C7: a load fails when a triangle in a sub-mesh's triangle range uses a
\* vertex outside the sub-mesh's vertex range, and every WalkMesh of a load
\* has its triangles remapped to 0 .. (vertex_end - vertex_begin) - 1, the
\* indices of its own vertex buffer.
C7_LocalIndices ==
  /\ (status # "idle" /\ ForeignTriangle(file) # {}) => status # "loaded"
  /\ status # "idle" =>
       \A name \in DOMAIN meshes :
         LET e == file.index[EntryOf(name)]
             m == meshes[name]
         IN /\ Size(m.vertices) = e.vertex_end - e.vertex_begin
            /\ Len(m.triangles) = e.triangle_end - e.triangle_begin
            /\ \A t \in 1..Len(m.triangles) : \A k \in 1..3 :
                 /\ m.triangles[t][k] \in 0..(e.vertex_end - e.vertex_begin - 1)
                 /\ m.triangles[t][k] = file.triangles[e.triangle_begin + t][k] - e.vertex_begin

C7_Witness ==
  /\ status = "loaded"
  /\ ForeignTriangle(file) = {}
  /\ \E name \in DOMAIN meshes :
       /\ file.index[EntryOf(name)].vertex_begin = 4
       /\ meshes[name].triangles = <<<<0, 1, 2>>>>

\* the directed edge that starts at corner k of a triangle, and the vertex after it
EdgeKey(tri, k) == <<tri[k], tri[(k % 3) + 1]>>
EdgeNext(tri, k) == tri[((k + 1) % 3) + 1]

\* positions <<t, k>> of directed edges, in the order of insertion
Earlier(p, q) == p[1] < q[1] \/ (p[1] = q[1] /\ p[2] < q[2])
EdgePositions(m) == (1..Len(m.triangles)) \X (1..3)
OwnedTwice(m) ==
  \E p, q \in EdgePositions(m) :
    p # q /\ EdgeKey(m.triangles[p[1]], p[2]) = EdgeKey(m.triangles[q[1]], q[2])

Attempted == status # "idle" /\ (built > 0 \/ status = "assert")

\* C10: a constructed WalkMesh's adjacency map holds exactly the three
\* directed edges of every triangle, each mapped to the third vertex of its
\* triangle; a directed edge owned twice makes the construction fail, and
\* the map keeps the entry of the first owner.
C10_AdjacencyMap ==
  Attempted =>
    /\ wm.ok =>
         /\ DOMAIN wm.next_vertex =
              {EdgeKey(wm.triangles[p[1]], p[2]) : p \in EdgePositions(wm)}
         /\ \A p \in EdgePositions(wm) :
              wm.next_vertex[EdgeKey(wm.triangles[p[1]], p[2])] = EdgeNext(wm.triangles[p[1]], p[2])
    /\ OwnedTwice(wm) => (~wm.ok /\ status = "assert")
    /\ \A p \in EdgePositions(wm) :
         LET key == EdgeKey(wm.triangles[p[1]], p[2])
         IN (/\ key \in DOMAIN wm.next_vertex
             /\ \A q \in EdgePositions(wm) :
                  Earlier(q, p) => EdgeKey(wm.triangles[q[1]], q[2]) # key)
              => wm.next_vertex[key] = EdgeNext(wm.triangles[p[1]], p[2])

C10_Witness ==
  /\ status = "assert"
  /\ built = 1
  /\ OwnedTwice(wm)
  /\ <<3, 0>> \in DOMAIN wm.next_vertex
  /\ wm.next_vertex[<<3, 0>>] = 2
  /\ \E name \in DOMAIN meshes : Cardinality(DOMAIN meshes[name].next_vertex) = 6
====
